---- MODULE Spec2Model ----
(***************************************************************************)
(* The experience-replay buffer of common/replay_memory/replay_memory.py   *)
(* (class ReplayMemory) as a state machine.                                *)
(*                                                                         *)
(* rm is the ReplayMemory object: a record with one field per attribute    *)
(* of the Python object, under the attribute's name.  A numpy array is a   *)
(* function on 0..n-1 (n its length along axis 0).  A frame is one pixel   *)
(* (width = height = 1, the constructor's defaults) and the auxiliary      *)
(* full-state vector one byte (full_state_size = 1).                       *)
(*                                                                         *)
(* Numbers.  uint8 values are integers modulo 256.  A float32 reward is    *)
(* held in fixed point, as an integer count of 1/RewardScale.  A pixel is  *)
(* held as an integer count of 1/PixelMax, so that a raw byte p is         *)
(* p * PixelMax and the normalized value p / 255.0 is p.                   *)
(***************************************************************************)
EXTENDS Integers, Sequences, FiniteSets, TLC

VARIABLES
    rm,      \* the ReplayMemory object
    disk,    \* the two files save writes and load reads, or NoFile
    snap,    \* history: the object as it was when save wrote disk
    recent,  \* history: the records add has stored, oldest first, the last
             \* max_steps of them
    nshaped, \* history: the number of propagate_rewards calls made
    call,    \* the sample / sample2 / sample_sequential call in progress
    last     \* the last call that ended: its name, arguments and outcome

vars == <<rm, disk, snap, recent, nshaped, call, last>>

----------------------------------------------------------------------------
(* Bounds of the model *)

MaxSteps == 3        \* largest capacity (max_steps) a buffer is built with
MaxPhi == 3          \* largest phi_length a buffer is built with
NumActions == 2      \* num_actions of every buffer built
MaxBatch == 2        \* largest batch_size asked of a sampler
MaxShaped == 1       \* propagate_rewards calls in one behaviour
FewSteps == 2        \* capacity of the buffers that are saved and loaded
ShapeSteps == 4      \* capacity of the buffers whose rewards are propagated
FramePhi == 1        \* phi_length of the buffers every call is made on
OptionSteps == 6     \* capacity of the buffers propagated under every option
TrainSteps == 4      \* capacity of the buffer the training loop fills
TrainPhi == 2        \* phi_length of the training loop and its buffer
TrainMaxSteps == 3   \* train_max_steps, the largest global_t of a run

(* Program constants *)
DefaultPhi == 4      \* __init__'s default phi_length
PixelMax == 255      \* normalize_images divides by 255.0

(* 20 * 20: with gamma = 19/20 two successive discountings are exact *)
RewardScale == 20 * 20

Min(a, b) == IF a < b THEN a ELSE b
Max(a, b) == IF a > b THEN a ELSE b

----------------------------------------------------------------------------
(* numpy *)

Zeros(n) == [i \in 0 .. n - 1 |-> 0]
Length(arr) == Cardinality(DOMAIN arr)
Uint8(x) == x % 256
Bool8(b) == IF b THEN 1 ELSE 0

(* arr[idx] = v : numpy accepts -n <= idx < n and counts a negative idx from the end *)
InRange(arr, idx) == -Length(arr) <= idx /\ idx < Length(arr)
Slot(arr, idx) == IF idx < 0 THEN idx + Length(arr) ELSE idx

(* np.delete(arr, range(from, to), axis=0) for 0 <= from <= to = len(arr) *)
Delete(arr, from) == [i \in 0 .. from - 1 |-> arr[i]]

----------------------------------------------------------------------------
(* ReplayMemory.__init__ *)

ReplayMemory(wrap, steps, phi, nact, clip) ==
    [ width           |-> 1,
      height          |-> 1,
      full_state_size |-> 1,
      max_steps       |-> steps,
      phi_length      |-> phi,
      num_actions     |-> nact,
      clip_reward     |-> clip,
      imgs            |-> Zeros(steps),
      actions         |-> Zeros(steps),
      rewards         |-> Zeros(steps),
      terminal        |-> Zeros(steps),
      lives           |-> Zeros(steps),
      loss_life       |-> Zeros(steps),
      gain_life       |-> Zeros(steps),
      full_state      |-> Zeros(steps),
      size            |-> 0,
      imgs_normalized |-> FALSE,
      wrap_memory     |-> wrap,
      bottom          |-> 0,
      top             |-> 0 ]

(* The parallel arrays of the object *)
Arrays == {"imgs", "actions", "rewards", "terminal", "lives", "loss_life",
           "gain_life", "full_state"}

----------------------------------------------------------------------------
(* ReplayMemory.add *)

(* The arguments of one add call *)
Rec(img, action, reward, terminal, lives, losslife, gainlife, fullstate) ==
    [ img |-> img, action |-> action, reward |-> reward * RewardScale,
      terminal |-> terminal, lives |-> lives, losslife |-> losslife,
      gainlife |-> gainlife, fullstate |-> fullstate ]

AddInputs ==
    { Rec(0,   0,  0, FALSE, 3, FALSE, FALSE, 0),
      Rec(255, 1,  1, FALSE, 3, FALSE, TRUE,  1),
      Rec(128, 1, -1, FALSE, 2, TRUE,  FALSE, 2),
      Rec(255, 0,  0, TRUE,  0, TRUE,  FALSE, 3),
      Rec(64,  0, -2, TRUE,  1, FALSE, FALSE, 1) }

(* What each array holds once rec is assigned to a slot of it: the value    *)
(* cast to the array's dtype.  imgs is uint8 until normalize_images makes   *)
(* it float32, and then the byte is stored as it is.                        *)
Stored(m, rec) ==
    [ imgs       |-> (IF m.imgs_normalized THEN rec.img ELSE Uint8(rec.img)) * PixelMax,
      actions    |-> Uint8(rec.action),
      rewards    |-> rec.reward,
      terminal   |-> Bool8(rec.terminal),
      lives      |-> rec.lives,
      loss_life  |-> Bool8(rec.losslife),
      gain_life  |-> Bool8(rec.gainlife),
      full_state |-> Uint8(rec.fullstate) ]

(* Mutant of add_full: the test is off by one *)
add_full_late(m) == ~m.wrap_memory /\ m.size > m.max_steps

(* line 169: the bounded buffer is full *)
add_full(m) == ~m.wrap_memory /\ m.size = m.max_steps

(* Mutant of add_idx: the write cursor of the ring, in both modes *)
add_idx_top(m) == m.top

(* lines 173-176 *)
add_idx(m) == IF m.wrap_memory THEN m.top ELSE m.size

(* lines 187-190 *)
add_evicts(m) == m.wrap_memory /\ m.size = m.max_steps
add_bottom_stuck(m) == m.bottom    \* mutant of add_bottom: no eviction
add_bottom(m) == IF add_evicts(m) THEN (m.bottom + 1) % m.max_steps ELSE m.bottom
add_size_unsaturated(m) == m.size + 1    \* mutant of add_size: no saturation
add_size(m) == IF add_evicts(m) THEN m.size ELSE m.size + 1

(* Mutant of add_top: the cursor is advanced in both modes *)
add_top_always(m) == (m.top + 1) % m.max_steps

(* Mutant of add_top: the modulo is forgotten *)
add_top_unwrapped(m) == IF m.wrap_memory THEN m.top + 1 ELSE m.top

(* lines 192-193 *)
add_top(m) == IF m.wrap_memory THEN (m.top + 1) % m.max_steps ELSE m.top

(* lines 178-185: the eight assignments at idx *)
add_write(m, idx, rec) ==
    LET v == Stored(m, rec) IN
    [m EXCEPT !.imgs[idx] = v.imgs, !.actions[idx] = v.actions,
              !.rewards[idx] = v.rewards, !.terminal[idx] = v.terminal,
              !.lives[idx] = v.lives, !.loss_life[idx] = v.loss_life,
              !.gain_life[idx] = v.gain_life, !.full_state[idx] = v.full_state]

(* The whole call: the object after it and how it ended.  "dropped" is the  *)
(* logged warning of line 170; the first assignment (line 178) raises       *)
(* IndexError, before anything is written, when idx is no slot of imgs.     *)
add(m, rec) ==
    IF add_full(m) THEN [rm |-> m, res |-> "dropped"]
    ELSE IF ~InRange(m.imgs, add_idx(m)) THEN [rm |-> m, res |-> "IndexError"]
    ELSE LET w == add_write(m, add_idx(m), rec) IN
         [rm  |-> [w EXCEPT !.bottom = add_bottom(m), !.size = add_size(m),
                            !.top = add_top(m)],
          res |-> "ok"]

----------------------------------------------------------------------------
(* ReplayMemory.resize: every array is cut to its first size rows and      *)
(* max_steps becomes size.  Nothing in it looks at wrap_memory.            *)

resize_steps_kept(m) == m.max_steps     \* mutant of resize_steps: line 147 is forgotten
resize_steps(m) == m.size                        \* line 147

resize(m) ==
    [m EXCEPT !.imgs = Delete(@, m.size), !.actions = Delete(@, m.size),
              !.rewards = Delete(@, m.size), !.terminal = Delete(@, m.size),
              !.lives = Delete(@, m.size), !.loss_life = Delete(@, m.size),
              !.gain_life = Delete(@, m.size), !.full_state = Delete(@, m.size),
              !.max_steps = resize_steps(m)]

----------------------------------------------------------------------------
(* ReplayMemory.normalize_images: imgs.astype(np.float32) / 255.0, once *)

(* Mutant of normalize_images: the flag is not looked at *)
normalize_images_again(m) ==
    [m EXCEPT !.imgs = [i \in DOMAIN @ |-> @[i] \div PixelMax],
              !.imgs_normalized = TRUE]

normalize_images(m) ==
    IF m.imgs_normalized THEN m
    ELSE [m EXCEPT !.imgs = [i \in DOMAIN @ |-> @[i] \div PixelMax],
                   !.imgs_normalized = TRUE]

----------------------------------------------------------------------------
(* ReplayMemory.propagate_rewards *)

Abs(x) == IF x < 0 THEN -x ELSE x
Sign(x) == IF x > 0 THEN 1 ELSE IF x < 0 THEN -1 ELSE 0

(* Fixed-point quotient and product, rounded toward zero *)
FDiv(a, b) == Sign(a) * Sign(b) * (Abs(a) \div Abs(b))
FMul(g, x) == FDiv(g.num * x, g.den)

(* np.sum of the first n elements *)
RECURSIVE Sum(_, _)
Sum(arr, n) == IF n = 0 THEN 0 ELSE arr[n - 1] + Sum(arr, n - 1)

(* np.clip(rewards, -1., 1.) *)
Clip(r) == Max(-RewardScale, Min(RewardScale, r))

(* lines 93-94: r lies more than two standard deviations from the mean of  *)
(* the nonzero rewards (n of them, sum s, sum of squares q); with no       *)
(* nonzero reward the mean is nan and nothing compares greater.            *)
IsOutlier(arr, r) ==
    LET n == Sum([i \in DOMAIN arr |-> IF arr[i] # 0 THEN 1 ELSE 0], Length(arr))
        s == Sum(arr, Length(arr))
        q == Sum([i \in DOMAIN arr |-> arr[i] * arr[i]], Length(arr))
    IN n > 0 /\ (n * r - s) * (n * r - s) > 4 * (n * q - s * s)

(* lines 96-98, for max_reward > 0 *)
Suppress(arr, max_reward) ==
    [i \in DOMAIN arr |->
        IF arr[i] # 0 /\ IsOutlier(arr, arr[i])
        THEN Sign(arr[i]) * max_reward * RewardScale ELSE arr[i]]

(* lines 103-105: for i in range(size-2, 0, -1) *)
RECURSIVE Discount(_, _, _)
Discount(arr, i, gamma) ==
    IF i < 1 THEN arr
    ELSE Discount([arr EXCEPT ![i] = arr[i] + FMul(gamma, arr[i + 1])], i - 1, gamma)

(* Mutant of discount_from: the loop starts one index too low *)
discount_from_low(m) == m.size - 3

(* line 103: the first index of range(self.size-2, 0, -1) *)
discount_from(m) == m.size - 2

(* o: gamma, clip, normalize, minmax_scale, exclude_outlier, max_reward.   *)
(* The min-max pass uses a name that is never bound (line 110) and the     *)
(* last debug line takes the minimum of the nonzero rewards (line 115):    *)
(* both raise after the rewards have been rewritten.                       *)
propagate_rewards(m, o) ==
    LET r0 == m.rewards
        r1 == IF o.clip THEN [i \in DOMAIN r0 |-> Clip(r0[i])]
              ELSE IF o.exclude_outlier /\ o.max_reward # 0
                   THEN Suppress(r0, o.max_reward) ELSE r0
        r2 == IF o.normalize /\ o.max_reward # 0
              THEN [i \in DOMAIN r1 |-> FDiv(r1[i], o.max_reward)] ELSE r1
        r3 == Discount(r2, discount_from(m), o.gamma)
    IN [rm  |-> [m EXCEPT !.rewards = r3],
        res |-> IF o.minmax_scale THEN "NameError"
                ELSE IF \A i \in DOMAIN r3 : r3[i] = 0 THEN "ValueError"
                ELSE "ok"]

----------------------------------------------------------------------------
(* ReplayMemory.save and ReplayMemory.load *)

(* common.util.save_compressed_images and get_compressed_images: the       *)
(* image archive, read back as it was written.                             *)
save_compressed_images(images) == [compression |-> "gzip", images |-> images]
get_compressed_images(archive) == archive.images

(* lines 419-436 *)
save_data(m) ==
    [ width |-> m.width, height |-> m.height, max_steps |-> m.max_steps,
      phi_length |-> m.phi_length, num_actions |-> m.num_actions,
      actions |-> m.actions, rewards |-> m.rewards, terminal |-> m.terminal,
      lives |-> m.lives, loss_life |-> m.loss_life, gain_life |-> m.gain_life,
      full_state_size |-> m.full_state_size, full_state |-> m.full_state,
      size |-> m.size, wrap_memory |-> m.wrap_memory, top |-> m.top,
      bottom |-> m.bottom, imgs_normalized |-> m.imgs_normalized ]

(* Mutant of save_object: save resizes whatever it is asked *)
save_object_resized(m, with_resize) == resize(m)

(* lines 416-418: the object save goes on with *)
save_object(m, with_resize) == IF with_resize THEN resize(m) ELSE m

(* The files save leaves *)
save(m, with_resize) ==
    LET w == save_object(m, with_resize) IN
    [exists |-> TRUE, pkl |-> save_data(w), h5 |-> save_compressed_images(w.imgs)]

(* data.get(key, default) *)
Get(data, key, default) == IF key \in DOMAIN data THEN data[key] ELSE default

(* Mutant of load_default_steps: the capacity of the receiving object *)
load_default_steps_own(m, data) == m.max_steps

(* self.max_steps as lines 466-470 read it, after line 460 has set it *)
load_default_steps(m, data) == data.max_steps

(* Mutant of load_normalized: the flag of the receiving object is kept *)
load_normalized_kept(m, data) == m.imgs_normalized

load_normalized(m, data) == data.imgs_normalized          \* line 475

load_top_stale(data) == data.bottom      \* mutant of load_top: the wrong key
load_top(data) == data.top               \* line 473

(* lines 457-476 *)
load(m, files) ==
    LET data == files.pkl
        steps == load_default_steps(m, data)
        fss == Get(data, "full_state_size", m.full_state_size)
    IN [m EXCEPT !.width = data.width, !.height = data.height,
                 !.max_steps = data.max_steps, !.phi_length = data.phi_length,
                 !.num_actions = data.num_actions, !.actions = data.actions,
                 !.rewards = data.rewards, !.terminal = data.terminal,
                 !.lives = Get(data, "lives", Zeros(steps)),
                 !.loss_life = Get(data, "loss_life", Zeros(steps)),
                 !.gain_life = Get(data, "gain_life", Zeros(steps)),
                 !.full_state_size = fss,
                 !.full_state = Get(data, "full_state", Zeros(steps)),
                 !.size = data.size, !.wrap_memory = data.wrap_memory,
                 !.top = load_top(data), !.bottom = data.bottom,
                 !.imgs_normalized = load_normalized(m, data),
                 !.imgs = get_compressed_images(files.h5)]

----------------------------------------------------------------------------
(* ReplayMemory.__getitem__ *)

(* arr.take(idxs, mode=mode) raises IndexError: under 'raise' when an index *)
(* is outside -n .. n-1, under 'wrap' when the array is empty               *)
TakeFails(arr, idxs, mode) ==
    /\ idxs # {}
    /\ IF mode = "wrap" THEN Length(arr) = 0
       ELSE \E i \in idxs : ~InRange(arr, i)

(* arr.take(i, mode=mode) *)
TakeAt(arr, i, mode) ==
    IF mode = "wrap" THEN arr[i % Length(arr)] ELSE arr[Slot(arr, i)]

take_mode(m) == IF m.wrap_memory THEN "wrap" ELSE "raise"      \* lines 213, 217

(* Mutant of checked_indices: the last frame is checked as well *)
checked_indices_all(m, key) == key .. key + m.phi_length - 1

(* indices[:-1], lines 214 and 218 *)
checked_indices(m, key) == key .. key + m.phi_length - 2

any_terminal(m, idxs) ==
    \E i \in idxs : TakeAt(m.terminal, i, take_mode(m)) # 0

(* Mutant of getitem_end: the record after the window's last frame *)
getitem_end_next(m, key) == key + m.phi_length

(* end_index, line 204 *)
getitem_end(m, key) == key + m.phi_length - 1

(* Mutant of getitem_stack: the newest frame first *)
getitem_stack_reversed(m, first) ==
    [i \in 1 .. m.phi_length |->
        TakeAt(m.imgs, first + m.phi_length - i, take_mode(m))]

(* lines 221-223 and 235-237: channel i - 1 of the stack is frame           *)
(* first + i - 1                                                            *)
getitem_stack(m, first) ==
    [i \in 1 .. m.phi_length |-> TakeAt(m.imgs, first + i - 1, take_mode(m))]

(* lines 221-239: the 8-tuple, or the IndexError of a take *)
getitem_window(m, key) ==
    LET mode == take_mode(m)
        end_index == getitem_end(m, key)
        Frames(first) == getitem_stack(m, first)
    IN  IF TakeFails(m.imgs, key .. end_index, mode)
        THEN [kind |-> "IndexError"]
        ELSE IF /\ TakeAt(m.terminal, end_index, mode) = 0
                /\ TakeFails(m.imgs, key + 1 .. end_index + 1, mode)
        THEN [kind |-> "IndexError"]
        ELSE [ kind       |-> "window",
               state      |-> Frames(key),
               action     |-> TakeAt(m.actions, end_index, mode),
               reward     |-> IF m.clip_reward
                              THEN Sign(TakeAt(m.rewards, end_index, mode)) * RewardScale
                              ELSE TakeAt(m.rewards, end_index, mode),
               terminal   |-> TakeAt(m.terminal, end_index, mode),
               next_state |-> IF TakeAt(m.terminal, end_index, mode) = 0
                              THEN Frames(key + 1)
                              ELSE [i \in 1 .. m.phi_length |-> 0],
               lives      |-> TakeAt(m.lives, end_index, mode),
               losslife   |-> TakeAt(m.loss_life, end_index, mode),
               gainlife   |-> TakeAt(m.gain_life, end_index, mode) ]

(* self[key]: kind "None" is the tuple of six None of lines 215 and 219 *)
getitem(m, key) ==
    LET checked == checked_indices(m, key) IN
    IF ~m.wrap_memory /\ key + m.phi_length - 1 >= m.size
    THEN [kind |-> "None"]
    ELSE IF TakeFails(m.terminal, checked, take_mode(m))
    THEN [kind |-> "IndexError"]
    ELSE IF any_terminal(m, checked)
    THEN [kind |-> "None"]
    ELSE getitem_window(m, key)

----------------------------------------------------------------------------
(* State *)

NoFile == [exists |-> FALSE]
Idle == [op |-> "none"]
NoCall == [op |-> "none"]

(* The last n elements of a sequence *)
LastN(seq, n) ==
    IF Len(seq) <= n THEN seq ELSE SubSeq(seq, Len(seq) - n + 1, Len(seq))

(* The state after rm = ReplayMemory(...) with arguments from the given sets *)
InitWith(wraps, caps, phis, clips) ==
    /\ rm \in {ReplayMemory(w, s, p, NumActions, c) :
                 w \in wraps, s \in caps, p \in phis, c \in clips}
    /\ disk = NoFile
    /\ snap = NoFile
    /\ recent = <<>>
    /\ nshaped = 0
    /\ call = Idle
    /\ last = NoCall

(* rm.add(...) with the arguments drawn from inputs; the history recent is  *)
(* kept when track is set                                                   *)
AddFrom(inputs, track) ==
    /\ call = Idle
    /\ \E rec \in inputs :
          LET r == add(rm, rec) IN
          /\ rm' = r.rm
          /\ recent' = IF track /\ r.res = "ok"
                          THEN LastN(Append(recent, rec), rm.max_steps)
                          ELSE recent
          /\ last' = [op |-> "add", rec |-> rec, res |-> r.res]
    /\ UNCHANGED <<disk, snap, nshaped, call>>

Add == AddFrom(AddInputs, TRUE)

----------------------------------------------------------------------------
(* The buffer under add alone *)

InitAdd == InitWith(BOOLEAN, 1 .. MaxSteps, {DefaultPhi}, {TRUE})

NextAdd == Add

SpecAdd == InitAdd /\ [][NextAdd]_vars

(* The record held at physical slot j, one field per array *)
RecordAt(m, j) == [a \in Arrays |-> m[a][j]]

(* The physical slot of logical index i (0 = oldest) in wrapping mode *)
Physical(m, i) == (m.bottom + i) % m.max_steps

(* C1: in bounded mode size never exceeds max_steps, and an add called     *)
(* while size = max_steps changes nothing of the object (no array slot,    *)
(* not size, bottom or top) and ends with the logged warning, not an       *)
(* exception.                                                              *)
C1_BoundedAddIsDroppedAtCapacity ==
    /\ [](~rm.wrap_memory => rm.size <= rm.max_steps)
    /\ [][(Add /\ ~rm.wrap_memory /\ rm.size = rm.max_steps)
            => (rm' = rm /\ last'.res = "dropped")]_vars

C1_Witness ==
    /\ ~rm.wrap_memory /\ rm.size = rm.max_steps
    /\ last.op = "add" /\ last.res = "dropped"
    /\ \E j \in DOMAIN rm.imgs : RecordAt(rm, j) # Stored(rm, last.rec)

(* C2: in wrapping mode, after add calls on a fresh buffer, the slots      *)
(* (bottom + i) mod max_steps, i = 0 .. size-1, hold the last              *)
(* min(n, max_steps) records added, in insertion order (so an add on a     *)
(* full buffer evicted the oldest record and no other).                    *)
C2_WrapHoldsLastRecordsInOrder ==
    rm.wrap_memory =>
        /\ rm.size = Len(recent)
        /\ \A i \in 0 .. rm.size - 1 :
              RecordAt(rm, Physical(rm, i)) = Stored(rm, recent[i + 1])

C2_Witness ==
    /\ rm.wrap_memory /\ rm.size = rm.max_steps /\ rm.max_steps = MaxSteps
    /\ rm.bottom = 2
    /\ \A i, j \in 1 .. Len(recent) : i # j => recent[i] # recent[j]

(* C3: in wrapping mode an add makes size min(size + 1, max_steps); on a   *)
(* full buffer it advances bottom and top by one modulo max_steps, on a    *)
(* buffer that is not full it advances top only.                           *)
C3_WrapCursors ==
    [][(Add /\ rm.wrap_memory) =>
          /\ rm'.size = Min(rm.size + 1, rm.max_steps)
          /\ rm'.top = (rm.top + 1) % rm.max_steps
          /\ rm'.bottom = IF rm.size = rm.max_steps
                            THEN (rm.bottom + 1) % rm.max_steps
                            ELSE rm.bottom]_vars

C3_Witness ==
    /\ rm.wrap_memory /\ rm.size = rm.max_steps /\ rm.max_steps > 1
    /\ rm.bottom = 1 /\ rm.top = 1 /\ last.op = "add" /\ last.res = "ok"

----------------------------------------------------------------------------
(* The buffer under every call that changes it or the files *)

FewInputs == { Rec(255, 1, 1, FALSE, 3, FALSE, TRUE, 2) }

Gamma == [num |-> 19, den |-> 20]               \* gamma=0.95, line 79

(* propagate_rewards with its defaults, and with clip=True *)
FewOptions ==
    { [gamma |-> Gamma, clip |-> c, normalize |-> FALSE, minmax_scale |-> FALSE,
       exclude_outlier |-> FALSE, max_reward |-> 0] : c \in BOOLEAN }

FewCapacities == {FewSteps}

Init == InitWith(BOOLEAN, FewCapacities, {DefaultPhi}, {TRUE})

(* rm = ReplayMemory(...): a new object replaces the old one; the files stay *)
Construct ==
    /\ call = Idle
    /\ rm' \in {ReplayMemory(w, c, DefaultPhi, NumActions, TRUE) :
                  w \in BOOLEAN, c \in FewCapacities}
    /\ recent' = <<>>
    /\ last' = [op |-> "__init__", res |-> "ok"]
    /\ UNCHANGED <<disk, snap, nshaped, call>>

AddFew == AddFrom(FewInputs, FALSE)

(* rm.resize() *)
Resize ==
    /\ call = Idle
    /\ rm' = resize(rm)
    /\ last' = [op |-> "resize", res |-> "ok"]
    /\ UNCHANGED <<disk, snap, recent, nshaped, call>>

(* rm.normalize_images(); logged: lines 72 and 77 wrote their messages *)
NormalizeImages ==
    /\ call = Idle
    /\ rm' = normalize_images(rm)
    /\ last' = [op |-> "normalize_images", res |-> "ok",
                logged |-> ~rm.imgs_normalized]
    /\ UNCHANGED <<disk, snap, recent, nshaped, call>>

(* rm.propagate_rewards(...) with the options drawn from options *)
PropagateRewardsFrom(options) ==
    /\ call = Idle
    /\ nshaped < MaxShaped
    /\ \E o \in options :
          LET r == propagate_rewards(rm, o) IN
          /\ rm' = r.rm
          /\ last' = [op |-> "propagate_rewards", options |-> o, res |-> r.res]
    /\ nshaped' = nshaped + 1
    /\ UNCHANGED <<disk, snap, recent, call>>

PropagateRewards == PropagateRewardsFrom(FewOptions)

(* rm.save(name, folder, resize) *)
Save ==
    /\ call = Idle
    /\ \E with_resize \in BOOLEAN :
          /\ rm' = save_object(rm, with_resize)
          /\ disk' = save(rm, with_resize)
          /\ last' = [op |-> "save", resize |-> with_resize, res |-> "ok"]
    /\ snap' = rm'
    /\ UNCHANGED <<recent, nshaped, call>>

(* rm.load(name, folder): open() raises when save has written no file *)
Load ==
    /\ call = Idle
    /\ IF disk.exists
       THEN rm' = load(rm, disk) /\ last' = [op |-> "load", res |-> "ok"]
       ELSE rm' = rm /\ last' = [op |-> "load", res |-> "IOError"]
    /\ UNCHANGED <<disk, snap, recent, nshaped, call>>

Next ==
    \/ Construct
    \/ AddFew
    \/ Resize
    \/ NormalizeImages
    \/ PropagateRewards
    \/ Save
    \/ Load

Spec == Init /\ [][Next]_vars

(* C4: 0 <= size <= max_steps in every state reached by add, resize, save  *)
(* (with or without resize), load of what save wrote, normalize_images     *)
(* and propagate_rewards, in both modes.                                   *)
C4_SizeWithinCapacity == 0 <= rm.size /\ rm.size <= rm.max_steps

C4_Witness ==
    /\ last.op = "load" /\ last.res = "ok"
    /\ rm.size > 0 /\ rm.size < rm.max_steps /\ nshaped > 0 /\ rm.imgs_normalized

(* The fields save writes and load reads back *)
Persisted ==
    {"size", "max_steps", "phi_length", "num_actions", "wrap_memory", "top",
     "bottom", "imgs_normalized"} \cup Arrays

(* C9: after save and then load, every persisted field of the object       *)
(* (size, max_steps, phi_length, num_actions, wrap_memory, top, bottom,    *)
(* imgs_normalized and every slot of the eight arrays) is what it was in   *)
(* the object that was saved.                                              *)
C9_SaveLoadRoundTrip ==
    (last.op = "load" /\ last.res = "ok") =>
        \A f \in Persisted : rm[f] = snap[f]

C9_Witness ==
    /\ last.op = "load" /\ last.res = "ok"
    /\ rm.wrap_memory /\ rm.size = rm.max_steps /\ rm.bottom = 1 /\ rm.top = 1
    /\ rm.imgs_normalized /\ nshaped > 0

(* C10: in wrapping mode resize, called directly or by save(resize=True),  *)
(* is refused with an error and leaves the object as it was.               *)
C10_ResizeRefusedInWrappingMode ==
    [][(/\ rm.wrap_memory
        /\ \/ Resize
           \/ Save /\ last'.resize)
       => (rm' = rm /\ last'.res # "ok")]_vars

(* C13: normalize_images is idempotent: a call on a buffer that is         *)
(* normalized already changes nothing, so that applying it twice leaves    *)
(* imgs and the flag as applying it once does (one division by 255).       *)
C13_NormalizeImagesIdempotent ==
    /\ [](LET once == normalize_images(rm)
              twice == normalize_images(once)
          IN  /\ twice.imgs = once.imgs
              /\ twice.imgs_normalized = once.imgs_normalized)
    /\ [][(NormalizeImages /\ rm.imgs_normalized) => rm' = rm]_vars

C13_Witness ==
    /\ last.op = "normalize_images" /\ ~last.logged
    /\ rm.imgs_normalized /\ rm.size > 0 /\ rm.imgs[0] = Uint8(255)

----------------------------------------------------------------------------
(* ReplayMemory.sample, sample2 and sample_sequential.                     *)
(*                                                                         *)
(* A call is a sequence of steps: it begins (the assertions and the        *)
(* allocation), makes one step per iteration of its retry loop, each with  *)
(* its own rng.randint draw, and returns or raises.  call holds the call   *)
(* in progress: its name, its arguments, the batch entries written so far  *)
(* (count is their number) and the index drawn last.                       *)

BatchSizes == 1 .. MaxBatch

SampleArgs ==
    [batch_size : BatchSizes, normalize : {FALSE}, onevsall : BOOLEAN,
     n_class : {0}]

Sample2Args ==
    [batch_size : BatchSizes, normalize : {FALSE}, k_bad_states : 0 .. 1,
     onevsall : BOOLEAN, n_class : {0}]

SequentialArgs == [batch_size : BatchSizes]

(* actions[count][...] = 1 on a row of zeros: lines 340-346, 396-402, 287 *)
one_hot(width, a) == [j \in 0 .. width - 1 |-> IF j = a THEN 1 ELSE 0]

actions_row(m, args, a) ==
    IF args.onevsall THEN one_hot(2, IF a = args.n_class THEN 0 ELSE 1)
    ELSE one_hot(m.num_actions, a)

(* actions[count][a] = 1 raises IndexError when a is no column of the row *)
args_ok(m, args, w) == args.onevsall \/ w.action \in 0 .. m.num_actions - 1

(* states[count] = np.copy(s0), and /= 255.0 under normalize *)
batch_state(m, args, frames) ==
    IF args.normalize /\ ~m.imgs_normalized
    THEN [i \in DOMAIN frames |-> frames[i] \div PixelMax] ELSE frames

(* lines 390-404: the entry sample writes at row count *)
sample_entry(m, args, index, w) ==
    [ index |-> index, state |-> batch_state(m, args, w.state),
      next_state |-> batch_state(m, args, w.next_state),
      actions |-> actions_row(m, args, w.action), reward |-> w.reward,
      terminal |-> w.terminal ]

(* lines 286-289: the entry sample_sequential writes at row count *)
sequential_entry(m, index, w) ==
    [ index |-> index, state |-> w.state,
      actions |-> one_hot(m.num_actions, w.action), reward |-> w.reward,
      terminal |-> w.terminal ]

Started(op, args) == [op |-> op, args |-> args, entries |-> <<>>]
Drawn(c, index) ==
    [op |-> c.op, args |-> c.args, entries |-> c.entries, index |-> index]
Accepted(c, index, e) ==
    [op |-> c.op, args |-> c.args, entries |-> Append(c.entries, e), index |-> index]

(* How a call ended: res is "ok" or the exception raised; item is what     *)
(* self[index] gave in the iteration that raised ("none": it was not       *)
(* reached).                                                               *)
Returned(c) == [op |-> c.op, args |-> c.args, res |-> "ok", batch |-> c.entries]
Refused(op, args) == [op |-> op, args |-> args, res |-> "AssertionError"]
Raised(c, exception, index, item) ==
    [op |-> c.op, args |-> c.args, res |-> exception, index |-> index, item |-> item]
NoDraw(c) == [op |-> c.op, args |-> c.args, res |-> "ValueError", item |-> "none"]

(* line 380: rng.randint(low, high), which raises ValueError unless low < high *)
sample_low(m) == m.bottom

(* Mutant of sample_high: one index too many *)
sample_high_loose(m) == m.bottom + m.size - m.phi_length + 1
sample_high(m) == m.bottom + m.size - m.phi_length

(* line 384: indices[:-1] with indices of length phi_length + 1 *)
sample_rejects(m, index) ==
    any_terminal(m, index .. index + m.phi_length - 1)

(* rm.sample(...) with the arguments drawn from arguments, line 360 *)
SampleBeginFrom(arguments) ==
    /\ call = Idle
    /\ \E args \in arguments :
          IF rm.wrap_memory
          THEN call' = Started("sample", args) /\ last' = last
          ELSE call' = Idle /\ last' = Refused("sample", args)
    /\ UNCHANGED <<rm, disk, snap, recent, nshaped>>

SampleBegin == SampleBeginFrom(SampleArgs)

(* One iteration of the loop of lines 379-408 *)
SampleDraw ==
    /\ call.op = "sample"
    /\ Len(call.entries) < call.args.batch_size
    /\ IF sample_low(rm) >= sample_high(rm)
       THEN call' = Idle /\ last' = NoDraw(call)
       ELSE \E index \in sample_low(rm) .. sample_high(rm) - 1 :
              LET item == getitem(rm, index) IN
              IF sample_rejects(rm, index)
              THEN call' = Drawn(call, index) /\ last' = last
              ELSE IF item.kind = "IndexError"
              THEN call' = Idle /\ last' = Raised(call, "IndexError", index, item.kind)
              ELSE IF item.kind = "None"
              THEN call' = Idle /\ last' = Raised(call, "ValueError", index, item.kind)
              ELSE IF ~args_ok(rm, call.args, item)
              THEN call' = Idle /\ last' = Raised(call, "IndexError", index, item.kind)
              ELSE /\ call' = Accepted(call, index,
                                       sample_entry(rm, call.args, index, item))
                   /\ last' = last
    /\ UNCHANGED <<rm, disk, snap, recent, nshaped>>

(* Mutant of sample2_high: one index too many *)
sample2_high_loose(m) == (m.size + 2) - m.phi_length

(* lines 319-320 *)
sample2_high(m) == (m.size + 1) - m.phi_length

(* Mutant of sample2_skips: the look-ahead begins one record late *)
sample2_skips_late(m, args, index) ==
    /\ args.k_bad_states # 0
    /\ \E i \in index + m.phi_length ..
                Min(index + m.phi_length - 1 + args.k_bad_states,
                    Length(m.rewards) - 1) :
          m.rewards[i] < 0 \/ m.loss_life[i] = 1

(* lines 325-331: the look-ahead filter skips this draw *)
sample2_skips(m, args, index) ==
    /\ args.k_bad_states # 0
    /\ \E i \in index + m.phi_length - 1 ..
                Min(index + m.phi_length - 2 + args.k_bad_states,
                    Length(m.rewards) - 1) :
          m.rewards[i] < 0 \/ m.loss_life[i] = 1

(* rm.sample2(...) with the arguments drawn from arguments, lines 301 and 320 *)
Sample2BeginFrom(arguments) ==
    /\ call = Idle
    /\ \E args \in arguments :
          IF ~rm.wrap_memory /\ sample2_high(rm) > 0
          THEN call' = Started("sample2", args) /\ last' = last
          ELSE call' = Idle /\ last' = Refused("sample2", args)
    /\ UNCHANGED <<rm, disk, snap, recent, nshaped>>

Sample2Begin == Sample2BeginFrom(Sample2Args)

(* One iteration of the loop of lines 323-352.  self[index] gives six      *)
(* values or eight; unpacking six into eight names raises ValueError       *)
(* (line 333), and with eight line 334 reads s, a name that is never       *)
(* bound, and raises NameError: lines 336-352 are never reached.           *)
Sample2Draw ==
    /\ call.op = "sample2"
    /\ Len(call.entries) < call.args.batch_size
    /\ \E index \in 0 .. sample2_high(rm) - 1 :
          LET item == getitem(rm, index) IN
          IF sample2_skips(rm, call.args, index)
          THEN call' = Drawn(call, index) /\ last' = last
          ELSE IF item.kind = "IndexError"
          THEN call' = Idle /\ last' = Raised(call, "IndexError", index, item.kind)
          ELSE IF item.kind = "None"
          THEN call' = Idle /\ last' = Raised(call, "ValueError", index, item.kind)
          ELSE call' = Idle /\ last' = Raised(call, "NameError", index, item.kind)
    /\ UNCHANGED <<rm, disk, snap, recent, nshaped>>

(* return, lines 354 and 410 *)
SampleReturn ==
    /\ call.op \in {"sample", "sample2"}
    /\ Len(call.entries) = call.args.batch_size
    /\ call' = Idle
    /\ last' = Returned(call)
    /\ UNCHANGED <<rm, disk, snap, recent, nshaped>>

(* line 271 *)
sequential_high(m, args) ==
    (m.size + 1) - (m.phi_length - 1 + args.batch_size)

(* rm.sample_sequential(batch_size) with the argument drawn from           *)
(* arguments, lines 255 and 272                                            *)
SequentialBeginFrom(arguments) ==
    /\ call = Idle
    /\ \E args \in arguments :
          IF ~rm.wrap_memory /\ sequential_high(rm, args) > 0
          THEN call' = Started("sample_sequential", args) /\ last' = last
          ELSE call' = Idle /\ last' = Refused("sample_sequential", args)
    /\ UNCHANGED <<rm, disk, snap, recent, nshaped>>

SequentialBegin == SequentialBeginFrom(SequentialArgs)

(* Mutant of sequential_rejects: the first frame of the run is not looked at *)
sequential_rejects_late(m, args, index) ==
    any_terminal(m, index + 1 .. index + args.batch_size + m.phi_length - 3)

(* lines 277-278: a terminal inside the run starting at index *)
sequential_rejects(m, args, index) ==
    any_terminal(m, index .. index + args.batch_size + m.phi_length - 3)

(* lines 283-293 from row count on: the entries, or the exception *)
RECURSIVE sequential_fill(_, _, _, _)
sequential_fill(m, c, index, count) ==
    IF count = c.args.batch_size THEN [call |-> Idle, last |-> Returned(c)]
    ELSE LET item == getitem(m, index) IN
         IF item.kind = "IndexError"
         THEN [call |-> Idle, last |-> Raised(c, "IndexError", index, item.kind)]
         ELSE IF item.kind = "None"
         THEN [call |-> Idle, last |-> Raised(c, "ValueError", index, item.kind)]
         ELSE IF item.action \notin 0 .. m.num_actions - 1
         THEN [call |-> Idle, last |-> Raised(c, "IndexError", index, item.kind)]
         ELSE sequential_fill(m, Accepted(c, index, sequential_entry(m, index, item)),
                              index + 1, count + 1)

(* One iteration of the search loop of lines 275-280 and, once a start is  *)
(* found, the loop of lines 283-293 and the return                         *)
SequentialDraw ==
    /\ call.op = "sample_sequential"
    /\ \E index \in 0 .. sequential_high(rm, call.args) - 1 :
          IF sequential_rejects(rm, call.args, index)
          THEN call' = Drawn(call, index) /\ last' = last
          ELSE LET r == sequential_fill(rm, call, index, 0) IN
               call' = r.call /\ last' = r.last
    /\ UNCHANGED <<rm, disk, snap, recent, nshaped>>

SampleInputs ==
    { Rec(255, 1,  1, FALSE, 3, FALSE, TRUE, 1),
      Rec(64,  0, -2, TRUE,  1, TRUE,  FALSE, 3) }

AddSample == AddFrom(SampleInputs, FALSE)

InitSample == InitWith(BOOLEAN, 1 .. MaxSteps, 1 .. MaxPhi, {TRUE})

NextSample ==
    \/ AddSample
    \/ SampleBegin
    \/ SampleDraw
    \/ Sample2Begin
    \/ Sample2Draw
    \/ SampleReturn
    \/ SequentialBegin
    \/ SequentialDraw

SpecSample == InitSample /\ [][NextSample]_vars

(* A terminal flag is set at logical offset j: slot j of a bounded buffer  *)
(* holding it, slot j mod max_steps of a ring                              *)
FlagAt(m, j) ==
    IF m.wrap_memory THEN m.max_steps > 0 /\ m.terminal[j % m.max_steps] = 1
    ELSE j \in 0 .. m.size - 1 /\ m.terminal[j] = 1

Keys == -MaxSteps .. MaxSteps + 1

(* C5: the window starting at k is unavailable (no window is returned; for *)
(* k >= 0 the result is the None tuple) whenever a terminal flag is set at *)
(* one of the offsets k .. k+phi_length-2, so for a terminal at t every    *)
(* window starting in t-phi_length+2 .. t is unavailable; a flag only at   *)
(* the last offset k+phi_length-1 leaves the window available.             *)
C5_TerminalInsideWindowUnavailable ==
    \A k \in Keys :
        LET w == getitem(rm, k)
            inside == \E j \in k .. k + rm.phi_length - 2 : FlagAt(rm, j)
        IN  /\ inside => (w.kind # "window" /\ (k >= 0 => w.kind = "None"))
            /\ (~inside /\ FlagAt(rm, k + rm.phi_length - 1)
                  /\ (k >= 0 \/ rm.wrap_memory))
               => (w.kind = "window" /\ w.terminal = 1)

C5_Witness ==
    /\ rm.phi_length = 3 /\ ~rm.wrap_memory /\ rm.size = 3
    /\ FlagAt(rm, 2) /\ ~FlagAt(rm, 0) /\ ~FlagAt(rm, 1)
    /\ getitem(rm, 0).kind = "window" /\ getitem(rm, 0).terminal = 1
    /\ last.op = "add"

Samplers == {"sample", "sample2", "sample_sequential"}

(* C6: no sample or sample2 call ends with an exception in an iteration    *)
(* where the window accessor reported the drawn window unavailable: the    *)
(* draw is rejected and the loop goes on.                                  *)
C6_UnavailableWindowIsRejectedDraw ==
    (last.op \in {"sample", "sample2"} /\ last.res \notin {"ok", "AssertionError"})
        => last.item # "None"

(* The start indices the sampler draws from *)
DrawRange(m, op, args) ==
    CASE op = "sample" -> m.bottom .. m.bottom + m.size - m.phi_length - 1
      [] op = "sample2" -> 0 .. m.size - m.phi_length
      [] op = "sample_sequential" -> 0 .. m.size - m.phi_length - args.batch_size + 1

OneHot(row) ==
    \E j \in DOMAIN row : row[j] = 1 /\ \A i \in DOMAIN row \ {j} : row[i] = 0

(* C7: a sample call on a ring, or a sample2 call on a bounded buffer,     *)
(* that holds a window the accessor accepts in its draw range ends by      *)
(* returning exactly batch_size entries, the actions row of each with one  *)
(* entry 1 and the others 0, of width num_actions or, one-vs-all, 2.       *)
C7_BatchIsFullAndOneHot ==
    (/\ \/ last.op = "sample" /\ rm.wrap_memory
        \/ last.op = "sample2" /\ ~rm.wrap_memory
     /\ \E k \in DrawRange(rm, last.op, last.args) : getitem(rm, k).kind = "window")
    => /\ last.res = "ok"
       /\ Len(last.batch) = last.args.batch_size
       /\ \A i \in 1 .. Len(last.batch) :
            /\ OneHot(last.batch[i].actions)
            /\ Length(last.batch[i].actions)
                 = IF last.args.onevsall THEN 2 ELSE rm.num_actions

(* The call cannot be served: too little history or nothing to draw from *)
Insufficient(m, op, args) ==
    m.size < m.phi_length \/ DrawRange(m, op, args) = {}

(* C8: a sample, sample2 or sample_sequential call (batch_size >= 1) made  *)
(* when size < phi_length, or when its draw range is empty, ends with an   *)
(* error: it returns no batch, writes no batch entry and makes no draw.    *)
(* sample2 and sample_sequential are refused as they begin; sample raises  *)
(* at its first draw.                                                      *)
C8_InsufficientHistoryAborts ==
    /\ [](/\ (call.op # "none" /\ Insufficient(rm, call.op, call.args))
              => (call.op = "sample" /\ call = Started(call.op, call.args))
          /\ (last.op \in Samplers /\ Insufficient(rm, last.op, last.args))
              => (/\ last.res \in {"AssertionError", "ValueError"}
                  /\ "batch" \notin DOMAIN last))
    /\ [][(call.op = "sample" /\ Insufficient(rm, call.op, call.args))
            => (call' = Idle /\ last'.res = "ValueError")]_vars

C8_Witness ==
    /\ last.op = "sample" /\ last.res = "ValueError"
    /\ rm.wrap_memory /\ 0 < rm.size /\ rm.size < rm.phi_length

----------------------------------------------------------------------------
(* ReplayMemory.__len__ and the calls rm[key], len(rm) *)

len_unclamped(m) == m.size - m.phi_length     \* mutant of len: no max(0, .)

(* line 199 *)
len(m) == Max(0, m.size - m.phi_length)

(* rm[key] (and rm.get_item(key), line 249) with key drawn from keys *)
GetItemFrom(keys) ==
    /\ call = Idle
    /\ \E key \in keys :
          LET item == getitem(rm, key) IN
          last' = [op |-> "__getitem__", key |-> key, item |-> item,
                   res |-> IF item.kind = "IndexError" THEN "IndexError" ELSE "ok"]
    /\ UNCHANGED <<rm, disk, snap, recent, nshaped, call>>

GetItem == GetItemFrom(Keys)

(* len(rm); length is the number returned *)
LenCall ==
    /\ call = Idle
    /\ last' = [op |-> "__len__", length |-> len(rm), res |-> "ok"]
    /\ UNCHANGED <<rm, disk, snap, recent, nshaped, call>>

----------------------------------------------------------------------------
(* The window accessor on a buffer that is filled and normalized *)

InitWindow == InitWith(BOOLEAN, 1 .. MaxSteps, 1 .. MaxPhi, BOOLEAN)

NextWindow ==
    \/ AddSample
    \/ NormalizeImages
    \/ GetItem
    \/ LenCall

SpecWindow == InitWindow /\ [][NextWindow]_vars

(* The pixel values of [0, 1], in units of 1/PixelMax *)
UnitRange == 0 .. PixelMax

(* rm[key] has returned a window *)
WindowReturned == last.op = "__getitem__" /\ last.item.kind = "window"

(* C12: once normalize_images has been applied, every pixel of the state   *)
(* and of the next_state of every window returned afterwards lies in       *)
(* [0, 1], also when the window holds frames that add stored after the     *)
(* normalization.                                                          *)
C12_NormalizedWindowsInUnitRange ==
    (WindowReturned /\ rm.imgs_normalized) =>
        \A i \in 1 .. rm.phi_length :
            /\ last.item.state[i] \in UnitRange
            /\ last.item.next_state[i] \in UnitRange

(* C15: len() is max(0, size - phi_length), and 0 whenever                 *)
(* size < phi_length.                                                      *)
C15_LenIsClampedDifference ==
    last.op = "__len__" =>
        /\ last.length = (IF rm.size - rm.phi_length > 0
                            THEN rm.size - rm.phi_length ELSE 0)
        /\ rm.size < rm.phi_length => last.length = 0

C15_Witness ==
    /\ last.op = "__len__" /\ last.length = 0
    /\ 0 < rm.size /\ rm.size < rm.phi_length

(* The slot of logical offset j: j itself in a bounded buffer, j modulo    *)
(* max_steps in a ring                                                     *)
SlotOf(m, j) == IF m.wrap_memory THEN j % m.max_steps ELSE j

(* rm[k] has returned a window for a start index k of the buffer *)
AvailableWindow == WindowReturned /\ (rm.wrap_memory \/ last.key >= 0)

(* C16: the action, reward, terminal, lives, loss_life and gain_life of an *)
(* available window(k) are those stored at logical offset                  *)
(* k + phi_length - 1, the reward replaced by its sign (-1, 0 or 1) when   *)
(* clip_reward is configured.                                              *)
C16_WindowRecordIsLastOffset ==
    AvailableWindow =>
        LET e == SlotOf(rm, last.key + rm.phi_length - 1)
            w == last.item
        IN  /\ w.action = rm.actions[e]
            /\ w.terminal = rm.terminal[e]
            /\ w.lives = rm.lives[e]
            /\ w.losslife = rm.loss_life[e]
            /\ w.gainlife = rm.gain_life[e]
            /\ ~rm.clip_reward => w.reward = rm.rewards[e]
            /\ rm.clip_reward =>
                 /\ w.reward \in {-RewardScale, 0, RewardScale}
                 /\ (w.reward > 0) = (rm.rewards[e] > 0)
                 /\ (w.reward < 0) = (rm.rewards[e] < 0)

C16_Witness ==
    /\ AvailableWindow /\ rm.clip_reward /\ last.key = 1 /\ rm.phi_length = 2
    /\ rm.rewards[SlotOf(rm, 2)] = -2 * RewardScale
    /\ last.item.reward = -RewardScale
    /\ rm.actions[SlotOf(rm, 2)] # rm.actions[SlotOf(rm, 1)]

(* C17: channel i (0 .. phi_length - 1) of the state of an available       *)
(* window(k) is the frame at logical offset k + i; channel i of its        *)
(* next_state is the frame at offset k + 1 + i when the frame at           *)
(* k + phi_length - 1 is not terminal, and zero when it is.                *)
C17_WindowFramesOldestFirst ==
    AvailableWindow =>
        LET k == last.key
            w == last.item
            terminal == rm.terminal[SlotOf(rm, k + rm.phi_length - 1)] # 0
        IN  \A i \in 0 .. rm.phi_length - 1 :
              /\ w.state[i + 1] = rm.imgs[SlotOf(rm, k + i)]
              /\ ~terminal => w.next_state[i + 1] = rm.imgs[SlotOf(rm, k + 1 + i)]
              /\ terminal => w.next_state[i + 1] = 0

C17_Witness ==
    /\ AvailableWindow /\ rm.phi_length = 2 /\ last.key = 0
    /\ last.item.state[1] # last.item.state[2]
    /\ last.item.terminal = 1
    /\ last.item.next_state = [i \in 1 .. 2 |-> 0]

C17_SuccessorWitness ==
    /\ AvailableWindow /\ rm.phi_length = 2 /\ last.key = 0 /\ ~rm.wrap_memory
    /\ last.item.terminal = 0 /\ rm.size = 3
    /\ last.item.next_state[1] # last.item.next_state[2]

----------------------------------------------------------------------------
(* What sample_sequential returns (checked under SpecSample) *)

(* C18: a sample_sequential(batch_size) call that returns, returns exactly *)
(* batch_size windows, in chronological order, whose start indices are     *)
(* consecutive (s, s+1, ..., s+batch_size-1) and lie in                    *)
(* 0 .. size - phi_length; no terminal flag is set at any frame of the run *)
(* s .. s+batch_size+phi_length-2 except possibly the last one.            *)
C18_SequentialRunIsConsecutive ==
    (last.op = "sample_sequential" /\ last.res = "ok") =>
        LET b == last.batch
            n == last.args.batch_size
            s == b[1].index
        IN  /\ Len(b) = n
            /\ \A i \in 1 .. n :
                 /\ b[i].index = s + i - 1
                 /\ b[i].index \in 0 .. rm.size - rm.phi_length
                 /\ b[i].state = [c \in 1 .. rm.phi_length |->
                                     rm.imgs[b[i].index + c - 1]]
                 /\ b[i].terminal = rm.terminal[b[i].index + rm.phi_length - 1]
            /\ \A j \in s .. s + n + rm.phi_length - 3 : rm.terminal[j] = 0

C18_Witness ==
    /\ last.op = "sample_sequential" /\ last.res = "ok"
    /\ last.args.batch_size = 2 /\ rm.phi_length = 2
    /\ last.batch[1].index = 0
    /\ last.batch[1].terminal = 0 /\ last.batch[2].terminal = 1

----------------------------------------------------------------------------
(* The reward shaper on a buffer of up to ShapeSteps rewards *)

(* add calls that differ in the reward only *)
ShapeInputs == { Rec(0, 0, r, FALSE, 3, FALSE, FALSE, 0) : r \in {0, 1, -2} }

AddShape == AddFrom(ShapeInputs, FALSE)

InitShape == InitWith(BOOLEAN, {ShapeSteps}, {DefaultPhi}, {TRUE})

NextShape ==
    \/ AddShape
    \/ PropagateRewards

SpecShape == InitShape /\ [][NextShape]_vars

(* propagate_rewards(gamma) with every option at its default *)
AllOff(o) ==
    ~o.clip /\ ~o.normalize /\ ~o.minmax_scale /\ ~o.exclude_outlier

(* The rewards [0, 0, 1, 0] and [0, 0.95, 1, 0] *)
ExampleRewards == <<0, 0, RewardScale, 0>>
ExampleReturns == <<0, (95 * RewardScale) \div 100, RewardScale, 0>>

(* C19: with all options off propagate_rewards replaces reward[i], for i   *)
(* from size-2 down to 1, by reward[i] + gamma * reward[i+1] with the      *)
(* reward[i+1] already updated, and leaves reward[0], reward[size-1] and   *)
(* every slot at index >= size as they were; [0, 0, 1, 0] with size 4 and  *)
(* gamma 0.95 becomes [0, 0.95, 1, 0].                                     *)
C19_BackwardDiscounting ==
    [][(PropagateRewards /\ AllOff(last'.options)) =>
          LET old == rm.rewards
              new == rm'.rewards
              n == rm.size
          IN  /\ DOMAIN new = DOMAIN old
              /\ \A i \in DOMAIN old :
                    new[i] = IF 1 <= i /\ i <= n - 2
                               THEN old[i] + FMul(last'.options.gamma, new[i + 1])
                               ELSE old[i]
              /\ (n = 4 /\ \A i \in 0 .. 3 : old[i] = ExampleRewards[i + 1])
                    => \A i \in 0 .. 3 : new[i] = ExampleReturns[i + 1]]_vars

C19_Witness ==
    /\ last.op = "propagate_rewards" /\ AllOff(last.options) /\ last.res = "ok"
    /\ rm.size = 4
    /\ \A i \in 0 .. 3 : rm.rewards[i] = ExampleReturns[i + 1]

----------------------------------------------------------------------------
(* load of the files of an older writer *)

(* The keys load reads with data.get, lines 466-468 and 470 *)
Optional == {"lives", "loss_life", "gain_life", "full_state"}

(* The files with a metadata blob that lacks the keys of missing *)
Without(files, missing) ==
    [files EXCEPT !.pkl = [k \in DOMAIN files.pkl \ missing |-> files.pkl[k]]]

(* rm.load(name, folder) of files whose blob lacks some of the optional    *)
(* keys; steps is max_steps of the receiving object before the call        *)
LoadLegacy ==
    /\ call = Idle
    /\ \E missing \in SUBSET Optional :
          IF disk.exists
          THEN /\ rm' = load(rm, Without(disk, missing))
               /\ last' = [op |-> "load", missing |-> missing,
                           steps |-> rm.max_steps, res |-> "ok"]
          ELSE /\ rm' = rm
               /\ last' = [op |-> "load", missing |-> missing,
                           steps |-> rm.max_steps, res |-> "IOError"]
    /\ UNCHANGED <<disk, snap, recent, nshaped, call>>

NextLegacy ==
    \/ Construct
    \/ AddFew
    \/ Save
    \/ LoadLegacy

SpecLegacy == Init /\ [][NextLegacy]_vars

(* C20: load of a blob that lacks lives, loss_life, gain_life or           *)
(* full_state succeeds; each missing array becomes all zeros of length     *)
(* max_steps of the blob (not of the receiving buffer) and every field the *)
(* blob holds is restored from it.                                         *)
C20_LegacyLoadDefaults ==
    /\ []((last.op = "load" /\ last.res = "ok") =>
            /\ \A f \in last.missing :
                  rm[f] = [i \in 0 .. snap.max_steps - 1 |-> 0]
            /\ \A f \in (DOMAIN disk.pkl \cap Persisted) \ last.missing :
                  rm[f] = snap[f])
    /\ [][(LoadLegacy /\ disk.exists) => last'.res = "ok"]_vars

C20_Witness ==
    /\ last.op = "load" /\ last.res = "ok" /\ last.missing = Optional
    /\ last.steps # snap.max_steps
    /\ rm.max_steps = 1 /\ rm.size = 1 /\ snap.lives[0] # 0
    /\ rm.lives = [i \in 0 .. 0 |-> 0]

----------------------------------------------------------------------------
(* The buffer under every call of the class *)

FewKeys == 0 .. FewSteps

GetItemFew == GetItemFrom(FewKeys)

(* The samplers asked for MaxBatch windows, with their other arguments at  *)
(* their defaults                                                          *)
SampleFew ==
    SampleBeginFrom([batch_size : {MaxBatch}, normalize : {FALSE},
                     onevsall : {FALSE}, n_class : {0}])
Sample2Few ==
    Sample2BeginFrom([batch_size : {MaxBatch}, normalize : {FALSE},
                      k_bad_states : {0}, onevsall : {FALSE}, n_class : {0}])
SequentialFew == SequentialBeginFrom([batch_size : {MaxBatch}])

InitFrame == InitWith(BOOLEAN, FewCapacities, {FramePhi}, {TRUE})

NextFrame ==
    \/ AddFew
    \/ Resize
    \/ NormalizeImages
    \/ PropagateRewards
    \/ Save
    \/ Load
    \/ GetItemFew
    \/ LenCall
    \/ SampleFew
    \/ SampleDraw
    \/ Sample2Few
    \/ Sample2Draw
    \/ SampleReturn
    \/ SequentialFew
    \/ SequentialDraw

SpecFrame == InitFrame /\ [][NextFrame]_vars

(* The step is a call of op that is made and ends in it *)
Called(op) == call = Idle /\ call' = Idle /\ last'.op = op

(* The step is one of a sample, sample2 or sample_sequential call: the     *)
(* call is refused as it begins, or it is in progress before or after      *)
SamplerStep ==
    \/ call # Idle
    \/ call' # Idle
    \/ call = Idle /\ call' = Idle /\ last'.op \in Samplers

(* C11 as stated: once imgs_normalized is true it is true in every later   *)
(* state, under add, sample, sample2, sample_sequential, resize, save,     *)
(* load, normalize_images and propagate_rewards.                           *)
C11_NormalizedFlagNeverCleared ==
    [][rm.imgs_normalized => rm'.imgs_normalized]_vars

(* C11, amended: once imgs_normalized is true it stays true under add,     *)
(* the samplers, resize, save, normalize_images and propagate_rewards;     *)
(* load sets it to the flag of the blob it reads, true or false.           *)
C11_NormalizedFlagClearedOnlyByLoad ==
    [][/\ (rm.imgs_normalized /\ ~Called("load")) => rm'.imgs_normalized
       /\ (Called("load") /\ disk.exists)
            => rm'.imgs_normalized = snap.imgs_normalized]_vars

C11_Witness ==
    /\ rm.imgs_normalized /\ last.op = "load" /\ last.res = "ok"
    /\ snap.imgs_normalized /\ rm.size > 0

(* The fields the claim names *)
Unchanged(m, n) ==
    /\ n.size = m.size /\ n.max_steps = m.max_steps
    /\ n.bottom = m.bottom /\ n.top = m.top
    /\ n.imgs_normalized = m.imgs_normalized
    /\ \A a \in Arrays : n[a] = m[a]

(* A step of __getitem__, __len__, a sampler or save without resize *)
ReadingCall ==
    \/ Called("__getitem__")
    \/ Called("__len__")
    \/ SamplerStep
    \/ Called("save") /\ ~last'.resize

(* C14 as stated: every call but add, resize and load (__getitem__,        *)
(* __len__, the samplers, save without resize, normalize_images,           *)
(* propagate_rewards) leaves size, max_steps, bottom, top, imgs_normalized *)
(* and every array slot unchanged.                                         *)
C14_OnlyAddResizeLoadMutate ==
    [][(ReadingCall \/ Called("normalize_images") \/ Called("propagate_rewards"))
          => Unchanged(rm, rm')]_vars

(* C14, amended: __getitem__, __len__, the samplers and save without       *)
(* resize leave size, max_steps, bottom, top, imgs_normalized and every    *)
(* array slot unchanged; normalize_images changes imgs and imgs_normalized *)
(* only, propagate_rewards the rewards only.                               *)
C14_ReadingCallsChangeNothing ==
    [][/\ ReadingCall => (Unchanged(rm, rm') /\ rm' = rm)
       /\ Called("normalize_images") =>
            \A f \in DOMAIN rm \ {"imgs", "imgs_normalized"} : rm'[f] = rm[f]
       /\ Called("propagate_rewards") =>
            \A f \in DOMAIN rm \ {"rewards"} : rm'[f] = rm[f]]_vars

C14_Witness ==
    /\ last.op = "save" /\ ~last.resize
    /\ 0 < rm.size /\ rm.size < rm.max_steps
    /\ rm.imgs_normalized /\ nshaped > 0

----------------------------------------------------------------------------
(* The slot add writes and the ring cursors (under SpecAdd) *)

(* C22: an add that stores its record changes one slot index only, the     *)
(* same in every parallel array: slot size in bounded mode, slot top in a  *)
(* ring; every other slot of every array, and the length of every array,   *)
(* is as it was.                                                           *)
C22_AddWritesOneSlot ==
    [][(Add /\ last'.res = "ok") =>
          LET idx == IF rm.wrap_memory THEN rm.top ELSE rm.size IN
          \A a \in Arrays :
              /\ DOMAIN rm'[a] = DOMAIN rm[a]
              /\ rm'[a][idx] = Stored(rm, last'.rec)[a]
              /\ \A j \in DOMAIN rm[a] \ {idx} : rm'[a][j] = rm[a][j]]_vars

C22_Witness ==
    /\ last.op = "add" /\ last.res = "ok" /\ ~rm.wrap_memory /\ rm.size = 2
    /\ RecordAt(rm, 1) = Stored(rm, last.rec)
    /\ RecordAt(rm, 0) # RecordAt(rm, 1)
    /\ rm.max_steps = 3 /\ RecordAt(rm, 2) = [a \in Arrays |-> 0]

(* C30: in every state add reaches from a fresh buffer, a ring has         *)
(* top = (bottom + size) mod max_steps, bottom = 0 while size < max_steps  *)
(* and bottom = top once size = max_steps; a bounded buffer has            *)
(* bottom = top = 0.                                                       *)
C30_CursorInvariants ==
    IF rm.wrap_memory
    THEN /\ rm.top = (rm.bottom + rm.size) % rm.max_steps
         /\ rm.size < rm.max_steps => rm.bottom = 0
         /\ rm.size = rm.max_steps => rm.bottom = rm.top
    ELSE rm.bottom = 0 /\ rm.top = 0

C30_Witness ==
    /\ rm.wrap_memory /\ rm.max_steps = MaxSteps /\ rm.size = rm.max_steps
    /\ rm.bottom = 2 /\ rm.top = 2

----------------------------------------------------------------------------
(* Start indices at and beyond the ends of a bounded buffer (under         *)
(* SpecWindow)                                                             *)

(* C21: in bounded mode rm[k] returns no frame data for a start index k    *)
(* outside 0 .. size - phi_length, negative k included: the window is      *)
(* reported unavailable or the call raises; no index is counted from the   *)
(* other end of the array.                                                 *)
C21_BoundedOutOfRangeKeyGivesNoWindow ==
    (last.op = "__getitem__" /\ ~rm.wrap_memory
       /\ last.key \notin 0 .. rm.size - rm.phi_length)
        => last.item.kind \in {"None", "IndexError"}

(* C29: in bounded mode, for a start index k >= 0 with                     *)
(* k + phi_length - 1 < size whose last frame is not terminal, rm[k] ends  *)
(* without IndexError and a window it returns has its next_state built     *)
(* from slots below size only (k + phi_length < size); k = size -          *)
(* phi_length is such an index, also when size = max_steps.                *)
C29_SuccessorReadStaysBelowSize ==
    (/\ last.op = "__getitem__" /\ ~rm.wrap_memory
     /\ last.key >= 0 /\ last.key + rm.phi_length - 1 < rm.size
     /\ rm.terminal[last.key + rm.phi_length - 1] = 0)
        => /\ last.item.kind # "IndexError"
           /\ last.item.kind = "window" => last.key + rm.phi_length < rm.size

----------------------------------------------------------------------------
(* resize of a bounded buffer (under Spec) *)

(* C28: in bounded mode resize, called directly or by save(resize=True),   *)
(* leaves size and the first size records of every array unchanged, makes  *)
(* max_steps and the length of every array exactly size, and every add to  *)
(* the buffer it leaves is dropped without changing anything.              *)
C28_BoundedResizeShrinksToSize ==
    [][(/\ ~rm.wrap_memory
        /\ \/ Called("resize")
           \/ Called("save") /\ last'.resize)
       => /\ rm'.size = rm.size
          /\ rm'.max_steps = rm.size
          /\ \A a \in Arrays :
                /\ DOMAIN rm'[a] = 0 .. rm.size - 1
                /\ \A i \in 0 .. rm.size - 1 : rm'[a][i] = rm[a][i]
          /\ \A rec \in AddInputs :
                add(rm', rec) = [rm |-> rm', res |-> "dropped"]]_vars

(* An add dropped by a buffer that a resize cut below its constructed      *)
(* capacity                                                                *)
C28_Witness ==
    /\ last.op = "add" /\ last.res = "dropped"
    /\ ~rm.wrap_memory /\ rm.size = 1 /\ rm.max_steps = 1
    /\ rm.max_steps < FewSteps
    /\ DOMAIN rm.imgs = {0} /\ rm.imgs[0] # 0

----------------------------------------------------------------------------
(* The draws of sample on a ring (under SpecSample) *)

(* An iteration of the loop of sample that leaves the call in progress:    *)
(* the index it drew is call'.index                                        *)
SampleIteration ==
    call.op = "sample" /\ call'.op = "sample" /\ call' # call

(* C23: in wrapping mode sample accepts a drawn start index k exactly when *)
(* no terminal flag is set at offsets k .. k + phi_length - 2; a window    *)
(* whose only terminal flag is at its last offset k + phi_length - 1 is    *)
(* accepted, with terminals = 1 and an all-zero next_state in its entry.   *)
C23_SampleAcceptsTerminalAtLastOffset ==
    [][SampleIteration =>
          LET k == call'.index
              accepted == Len(call'.entries) = Len(call.entries) + 1
              e == call'.entries[Len(call'.entries)]
          IN  /\ accepted <=>
                    \A j \in k .. k + rm.phi_length - 2 : ~FlagAt(rm, j)
              /\ (accepted /\ FlagAt(rm, k + rm.phi_length - 1)) =>
                    /\ e.terminal = 1
                    /\ \A i \in 1 .. rm.phi_length : e.next_state[i] = 0]_vars

(* C24: in wrapping mode every index sample draws lies in                  *)
(* [bottom, bottom + size - phi_length), and every entry of its batch was  *)
(* read from logical positions bottom .. bottom + size - 1 only: frame i   *)
(* of its state is the image at position index + i - 1, frame i of its     *)
(* next_state the image at position index + i, each taken modulo           *)
(* max_steps, and index + phi_length <= bottom + size - 1, so that no      *)
(* window runs over the newest record into the oldest or into a slot never *)
(* written.                                                                *)
C24_SampleReadsInsideLogicalRange ==
    call.op = "sample" =>
        /\ "index" \in DOMAIN call =>
              call.index \in rm.bottom .. rm.bottom + rm.size - rm.phi_length - 1
        /\ \A n \in 1 .. Len(call.entries) :
              LET e == call.entries[n] IN
              /\ rm.bottom <= e.index
              /\ e.index + rm.phi_length <= rm.bottom + rm.size - 1
              /\ \A i \in 1 .. rm.phi_length :
                    /\ e.state[i] = rm.imgs[(e.index + i - 1) % rm.max_steps]
                    /\ e.next_state[i] = rm.imgs[(e.index + i) % rm.max_steps]

(* An entry read across the end of the arrays of a full ring whose oldest  *)
(* record is not in slot 0                                                 *)
C24_Witness ==
    /\ call.op = "sample" /\ Len(call.entries) > 0
    /\ rm.size = rm.max_steps /\ rm.bottom > 0
    /\ call.entries[1].index + rm.phi_length >= rm.max_steps
    /\ call.entries[1].state # call.entries[1].next_state

----------------------------------------------------------------------------
(* The look-ahead filter of sample2 (under SpecSample) *)

(* One of the k records at j + phi_length - 1 .. j + phi_length - 2 + k    *)
(* has a negative reward or its loss-of-life flag set                      *)
BadAhead(m, j, k) ==
    \E i \in j + m.phi_length - 1 .. j + m.phi_length - 2 + k :
        i \in DOMAIN m.rewards /\ (m.rewards[i] < 0 \/ m.loss_life[i] = 1)

(* C25: with k_bad_states = k > 0 a draw of sample2 at index j with a      *)
(* negative reward or a loss-of-life flag among the k records at           *)
(* j + phi_length - 1 .. j + phi_length - 2 + k is skipped before its      *)
(* window is read, so that no such window is in the batch; a draw is       *)
(* skipped by the filter only so, never with k_bad_states = 0.             *)
C25_Sample2SkipsBadLookahead ==
    [][(call.op = "sample2" /\ call' # call) =>
          LET k == call.args.k_bad_states IN
          IF call' = Idle
          THEN ~BadAhead(rm, last'.index, k)
          ELSE /\ k > 0 /\ BadAhead(rm, call'.index, k)
               /\ call'.entries = call.entries
               /\ \A n \in 1 .. Len(call'.entries) :
                     ~BadAhead(rm, call'.entries[n].index, k)]_vars

(* A draw skipped by the filter: the window's last frame lost a life *)
C25_Witness ==
    /\ call.op = "sample2" /\ "index" \in DOMAIN call
    /\ call.args.k_bad_states = 1
    /\ rm.loss_life[call.index + rm.phi_length - 1] = 1
    /\ rm.size > call.index + rm.phi_length

----------------------------------------------------------------------------
(* How the retry loops end (under SpecSample) *)

(* The loop of the call c does not reject a draw of index j *)
Acceptable(m, c, j) ==
    CASE c.op = "sample" -> ~sample_rejects(m, j)
      [] c.op = "sample2" ->
            ~sample2_skips(m, c.args, j) /\ getitem(m, j).kind # "None"
      [] c.op = "sample_sequential" -> ~sequential_rejects(m, c.args, j)

(* C26: sample, sample2 and sample_sequential retry rejected draws without *)
(* bound; a call whose draw range holds an acceptable start index returns  *)
(* after finitely many fair draws, and a call whose range holds none never *)
(* returns.  Of a finite run: a call in progress ends by returning its     *)
(* batch if its range holds an acceptable index, and does not return       *)
(* otherwise.                                                              *)
C26_RetryLoopEndsByReturning ==
    [][(call # Idle /\ call' = Idle) =>
          ((\E j \in DrawRange(rm, call.op, call.args) : Acceptable(rm, call, j))
              <=> last'.res = "ok")]_vars

----------------------------------------------------------------------------
(* The reward shaper under every combination of its options *)

(* add calls whose rewards are 1 and -2: five of the one and one of the    *)
(* other make an outlier                                                   *)
OptionInputs == { Rec(0, 0, r, FALSE, 3, FALSE, FALSE, 0) : r \in {1, -2} }

(* clip, normalize, minmax_scale and exclude_outlier each on or off, with  *)
(* max_reward at its default 0 and at 2                                    *)
ManyOptions ==
    { [gamma |-> Gamma, clip |-> c, normalize |-> n, minmax_scale |-> s,
       exclude_outlier |-> e, max_reward |-> x] :
         c \in BOOLEAN, n \in BOOLEAN, s \in BOOLEAN, e \in BOOLEAN, x \in {0, 2} }

AddOptions == AddFrom(OptionInputs, FALSE)

PropagateRewardsAny == PropagateRewardsFrom(ManyOptions)

InitOptions == InitWith(BOOLEAN, {OptionSteps}, {DefaultPhi}, {TRUE})

NextOptions ==
    \/ AddOptions
    \/ PropagateRewardsAny

SpecOptions == InitOptions /\ [][NextOptions]_vars

(* Min-max rescaling to [0, 1]; a constant array becomes all zero *)
MinMaxScaled(arr) ==
    LET vals == {arr[i] : i \in DOMAIN arr}
        lo == CHOOSE x \in vals : \A y \in vals : x <= y
        hi == CHOOSE x \in vals : \A y \in vals : x >= y
    IN  [i \in DOMAIN arr |->
            IF hi = lo THEN 0 ELSE FDiv((arr[i] - lo) * RewardScale, hi - lo)]

(* The stages in the order of C27, each applied when its own option is set *)
Staged(m, o) ==
    LET r0 == m.rewards
        r1 == IF o.clip THEN [i \in DOMAIN r0 |-> Clip(r0[i])] ELSE r0
        r2 == IF o.exclude_outlier THEN Suppress(r1, o.max_reward) ELSE r1
        r3 == IF o.normalize
              THEN [i \in DOMAIN r2 |-> FDiv(r2[i], o.max_reward)] ELSE r2
        r4 == Discount(r3, m.size - 2, o.gamma)
    IN  IF o.minmax_scale THEN MinMaxScaled(r4) ELSE r4

(* C27: every propagate_rewards call completes, whatever the combination   *)
(* of options, and (for a max_reward that is not 0) leaves the rewards     *)
(* that the stages give when each is applied exactly when its own option   *)
(* is set, in the order clipping to [-1, 1], outlier suppression,          *)
(* normalization by max_reward, backward propagation, min-max rescaling.   *)
C27_StagesIndependentAndComplete ==
    [][Called("propagate_rewards") =>
          /\ last'.res = "ok"
          /\ last'.options.max_reward # 0 =>
                rm'.rewards = Staged(rm, last'.options)]_vars

----------------------------------------------------------------------------
(* DQNTraining.run (src/dqn/dqn_training.py) on a ring buffer.  call holds *)
(* the run in progress: where it stands (pc), global_t, the arguments of   *)
(* the trainer and, in reset, which _reset call the last step made.  The   *)
(* game, the network and the evaluation are outside: a game step gives a   *)
(* terminal flag, game_state.reset leaves one, and both are inputs.  The   *)
(* folder of disk also holds the network checkpoint, global_t with it.     *)

(* eval_freq, save_freq, observe and update_freq of the trainer *)
TrainArgs ==
    [eval_freq : 2 .. TrainMaxSteps, save_freq : 1 .. 2,
     observe : {1, TrainMaxSteps}, update_freq : 1 .. 2]

(* The record _reset adds (lines 99-105): action 0, the state after        *)
(* game_state.reset                                                        *)
ResetFrame(terminal) == Rec(64, 0, 0, terminal, 3, FALSE, FALSE, 0)

(* The record run adds for a game step (lines 437-441) *)
StepFrame(terminal_) == Rec(255, 1, 1, terminal_, 3, FALSE, FALSE, 1)

(* lines 98-105: phi_length adds of the same record *)
RECURSIVE reset_adds(_, _, _)
reset_adds(m, rec, n) ==
    IF n = 0 THEN m ELSE reset_adds(add(m, rec).rm, rec, n - 1)

DQNTraining_reset(m, terminal) == reset_adds(m, ResetFrame(terminal), TrainPhi)

(* lines 481-483: net.save(global_t) and replay_memory.save(resize=False) *)
checkpoint(m, global_t) == save(m, FALSE) @@ [global_t |-> global_t]

Running(args, pc, global_t, reset) ==
    [op |-> "run", args |-> args, pc |-> pc, global_t |-> global_t,
     reset |-> reset]

(* lines 340-342 and _load: a new trainer with a new buffer; with a        *)
(* checkpoint in the folder global_t and the buffer are read from it.  A   *)
(* run after the first is made with the arguments of the first.            *)
RunLoad ==
    /\ call = Idle
    /\ \E args \in IF last.op = "run" THEN {last.args} ELSE TrainArgs :
          LET fresh == ReplayMemory(TRUE, TrainSteps, TrainPhi, NumActions, TRUE) IN
          IF disk.exists /\ "global_t" \in DOMAIN disk
          THEN /\ rm' = load(fresh, disk)
               /\ call' = Running(args, "loaded", disk.global_t, "none")
          ELSE /\ rm' = fresh
               /\ call' = Running(args, "loaded", 0, "none")
    /\ UNCHANGED <<disk, snap, recent, nshaped, last>>

(* lines 346-347: the reset before the loop, unless the loop begins with   *)
(* an evaluation                                                           *)
RunFirstReset ==
    /\ call.op = "run" /\ call.pc = "loaded"
    /\ IF call.global_t % call.args.eval_freq # 0
       THEN \E terminal \in BOOLEAN :
              /\ rm' = DQNTraining_reset(rm, terminal)
              /\ call' = Running(call.args, "loop", call.global_t, "start")
       ELSE /\ rm' = rm
            /\ call' = Running(call.args, "loop", call.global_t, "none")
    /\ UNCHANGED <<disk, snap, recent, nshaped, last>>

(* line 385: the loop ends *)
RunEnd ==
    /\ call.op = "run" /\ call.pc = "loop"
    /\ call.global_t >= TrainMaxSteps
    /\ call' = Idle
    /\ last' = [op |-> "run", args |-> call.args, global_t |-> call.global_t,
                res |-> "ok"]
    /\ UNCHANGED <<rm, disk, snap, recent, nshaped>>

(* lines 387-394: evaluation, then _reset(hard_reset=True) *)
RunEvaluate ==
    /\ call.op = "run" /\ call.pc = "loop"
    /\ call.global_t < TrainMaxSteps
    /\ call.global_t % call.args.eval_freq = 0
    /\ \E terminal \in BOOLEAN : rm' = DQNTraining_reset(rm, terminal)
    /\ call' = Running(call.args, "step", call.global_t, "eval")
    /\ UNCHANGED <<disk, snap, recent, nshaped, last>>

(* lines 396-456 and, when the game goes on, 470-511: the step, the add    *)
(* with terminal_ (line 433), the training call, which passes sample a     *)
(* keyword it does not take (line 451: TypeError), and the checkpoint      *)
RunStep ==
    /\ call.op = "run"
    /\ \/ call.pc = "step"
       \/ /\ call.pc = "loop" /\ call.global_t < TrainMaxSteps
          /\ call.global_t % call.args.eval_freq # 0
    /\ \E terminal \in BOOLEAN :
          LET terminal_ == terminal \/ (call.global_t + 1) % call.args.eval_freq = 0
              global_t == call.global_t + 1
          IN  /\ rm' = add(rm, StepFrame(terminal_)).rm
              /\ IF global_t > call.args.observe
                    /\ global_t % call.args.update_freq = 0
                 THEN /\ call' = Idle
                      /\ last' = [op |-> "run", args |-> call.args,
                                  global_t |-> global_t, res |-> "TypeError"]
                      /\ disk' = disk
                 ELSE IF terminal
                 THEN /\ call' = Running(call.args, "episode_end", global_t, "none")
                      /\ UNCHANGED <<disk, last>>
                 ELSE /\ call' = Running(call.args, "loop", global_t, "none")
                      /\ disk' = IF global_t % call.args.save_freq = 0
                                   THEN checkpoint(rm', global_t) ELSE disk
                      /\ last' = last
    /\ UNCHANGED <<snap, recent, nshaped>>

(* lines 456-486 after a terminal step: _reset(hard_reset=False) and the   *)
(* checkpoint                                                              *)
RunEpisodeEnd ==
    /\ call.op = "run" /\ call.pc = "episode_end"
    /\ \E terminal \in BOOLEAN : rm' = DQNTraining_reset(rm, terminal)
    /\ call' = Running(call.args, "loop", call.global_t, "episode")
    /\ disk' = IF call.global_t % call.args.save_freq = 0
                 THEN checkpoint(rm', call.global_t) ELSE disk
    /\ UNCHANGED <<snap, recent, nshaped, last>>

InitTrain == InitWith({TRUE}, {TrainSteps}, {TrainPhi}, {TRUE})

NextTrain ==
    \/ RunLoad
    \/ RunFirstReset
    \/ RunEnd
    \/ RunEvaluate
    \/ RunStep
    \/ RunEpisodeEnd

SpecTrain == InitTrain /\ [][NextTrain]_vars

(* The step is one in which run called _reset *)
ResetStep == call'.op = "run" /\ call' # call /\ call'.reset # "none"

(* The record stored last: the slot before top *)
NewestSlot(m) == (m.top - 1) % m.max_steps

(* C31: whenever _reset appends its phi_length frames to a buffer that is  *)
(* not empty, the record stored immediately before them has its terminal   *)
(* flag set: at the reset after an episode end, after an evaluation        *)
(* boundary, after both at the same step, and at the reset of a run        *)
(* resumed from a checkpoint.                                              *)
C31_ResetFollowsTerminalRecord ==
    [][(ResetStep /\ rm.size > 0) => rm.terminal[NewestSlot(rm)] = 1]_vars

====
